---- MODULE Spec2Model ----
(***************************************************************************)
(* The two Streamlit scripts of the mortgage calculator:                   *)
(*   app.py       sidebar inputs, module-level monthly_payment,            *)
(*                create_amortization_schedule (with the balance clamp)    *)
(*   mortgage.py  the "Mortgage Calculator" page (home value - deposit,    *)
(*                inline schedule loop, yearly minimum balance) and the    *)
(*                "ChatGPT" page (session transcript).                     *)
(* Python floats are IEEE-754 binary64.  They are modelled bit for bit:    *)
(* a float is sign * significand * 2^exponent with a 53-bit significand    *)
(* held as a little-endian sequence of 15-bit limbs, and every arithmetic  *)
(* operation computes the exact result and rounds it to nearest, ties to   *)
(* even.  Exponents are unbounded: no value of the bounded inputs comes    *)
(* near the overflow or subnormal range.                                   *)
(***************************************************************************)
EXTENDS Integers, Sequences, FiniteSets, TLC

\* ------------------------------------------------------------------------
\* Unsigned big integers: little-endian limb sequences, no high zero limb.
\* ------------------------------------------------------------------------
LimbBits == 15
Base == 2 ^ LimbBits
MantBits == 53

\* the element of a one-element set: Only({F(v) : v \in {e}}) is F(e) with e
\* evaluated first and once
Only(S) == CHOOSE x \in S : TRUE

Pow2(k) == 2 ^ k

RECURSIVE BTrim(_)
BTrim(a) ==
    IF a = <<>> THEN <<>>
    ELSE IF a[Len(a)] = 0 THEN BTrim(SubSeq(a, 1, Len(a) - 1)) ELSE SubSeq(a, 1, Len(a))

Limb(a, i) == IF i >= 1 /\ i <= Len(a) THEN a[i] ELSE 0

\* limbs i.. of a + b, with carry c into limb i
RECURSIVE BAddC(_, _, _, _)
BAddC(a, b, i, c) ==
    IF i > Len(a) /\ i > Len(b) THEN (IF c = 0 THEN <<>> ELSE <<c>>)
    ELSE <<(Limb(a, i) + Limb(b, i) + c) % Base>>
           \o BAddC(a, b, i + 1, (Limb(a, i) + Limb(b, i) + c) \div Base)

BAdd(a, b) == BAddC(a, b, 1, 0)

\* limbs i.. of a - b for a >= b, with borrow c from limb i
RECURSIVE BSubC(_, _, _, _)
BSubC(a, b, i, c) ==
    IF i > Len(a) THEN <<>>
    ELSE <<(a[i] - Limb(b, i) - c + Base) % Base>>
           \o BSubC(a, b, i + 1, IF a[i] - Limb(b, i) - c < 0 THEN 1 ELSE 0)

BSub(a, b) == BTrim(BSubC(a, b, 1, 0))

\* -1, 0, 1 as a < b, a = b, a > b
RECURSIVE BCmpAt(_, _, _)
BCmpAt(a, b, i) ==
    IF i = 0 THEN 0
    ELSE IF a[i] < b[i] THEN -1
    ELSE IF a[i] > b[i] THEN 1
    ELSE BCmpAt(a, b, i - 1)

BCmp(a, b) ==
    IF Len(a) < Len(b) THEN -1
    ELSE IF Len(a) > Len(b) THEN 1
    ELSE BCmpAt(a, b, Len(a))

\* a * k + c for a limb k
RECURSIVE BMulSmallC(_, _, _, _)
BMulSmallC(a, k, i, c) ==
    IF i > Len(a) THEN (IF c = 0 THEN <<>> ELSE <<c>>)
    ELSE <<(a[i] * k + c) % Base>> \o BMulSmallC(a, k, i + 1, (a[i] * k + c) \div Base)

BMulSmall(a, k) == IF k = 0 THEN <<>> ELSE BMulSmallC(a, k, 1, 0)

\* column k of the schoolbook product: the low halves of the limb products
\* a[i] * b[k + 1 - i] plus the high halves of the products of column k - 1
ColTerm(a, b, i, j) == IF j >= 1 /\ j <= Len(b) THEN a[i] * b[j] ELSE 0

RECURSIVE ColSum(_, _, _, _)
ColSum(a, b, k, i) ==
    IF i > Len(a) THEN 0
    ELSE (ColTerm(a, b, i, k + 1 - i) % Base) + (ColTerm(a, b, i, k - i) \div Base)
           + ColSum(a, b, k, i + 1)

\* limbs i..n of the number whose columns are col[1..n], with carry c into limb i
RECURSIVE BCarry(_, _, _, _)
BCarry(col, n, i, c) ==
    IF i > n THEN (IF c = 0 THEN <<>> ELSE <<c>>)
    ELSE <<(col[i] + c) % Base>> \o BCarry(col, n, i + 1, (col[i] + c) \div Base)

BMul(a, b) ==
    IF a = <<>> \/ b = <<>> THEN <<>>
    ELSE BTrim(BCarry([k \in 1..(Len(a) + Len(b)) |-> ColSum(a, b, k, 1)],
                      Len(a) + Len(b), 1, 0))

\* a * 2^k and a \div 2^k: whole limbs, then k % LimbBits bits limb by limb
BShlBits(a, p) ==
    BTrim([i \in 1..(Len(a) + 1) |->
              (Limb(a, i) % (Base \div p)) * p + Limb(a, i - 1) \div (Base \div p)])

BShl(a, k) ==
    IF a = <<>> THEN <<>>
    ELSE [i \in 1..(k \div LimbBits) |-> 0] \o BShlBits(a, Pow2(k % LimbBits))

BShrBits(a, p) ==
    BTrim([i \in 1..Len(a) |-> a[i] \div p + (Limb(a, i + 1) % p) * (Base \div p)])

BShr(a, k) ==
    IF Len(a) <= k \div LimbBits THEN <<>>
    ELSE BShrBits(SubSeq(a, (k \div LimbBits) + 1, Len(a)), Pow2(k % LimbBits))

\* the number of bits of a limb
LimbLen(x) == CHOOSE n \in 0..LimbBits : x < Pow2(n) /\ (n = 0 \/ x >= Pow2(n - 1))

BBitLen(a) ==
    IF a = <<>> THEN 0 ELSE LimbBits * (Len(a) - 1) + LimbLen(a[Len(a)])

RECURSIVE BFromInt(_)
BFromInt(n) == IF n = 0 THEN <<>> ELSE <<n % Base>> \o BFromInt(n \div Base)

\* Long division in base 2^LimbBits by a divisor d whose top limb is at least
\* Base / 2.  rb is the running remainder times Base (rb < d * Base): the digit
\* estimated from its top two limbs is at most 2 too large.
DivEstimate(rb, d) ==
    IF (Limb(rb, Len(d) + 1) * Base + Limb(rb, Len(d))) \div d[Len(d)] >= Base
    THEN Base - 1
    ELSE (Limb(rb, Len(d) + 1) * Base + Limb(rb, Len(d))) \div d[Len(d)]

DivFix(digit, rb, d) == IF BCmp(BMulSmall(d, digit), rb) > 0 THEN digit - 1 ELSE digit

DivDigit(rb, d) == DivFix(DivFix(DivEstimate(rb, d), rb, d), rb, d)

DivTake(q, rb, d, digit) == <<<<digit>> \o q, BSub(rb, BMulSmall(d, digit))>>

BShlLimb(r) == IF r = <<>> THEN <<>> ELSE <<0>> \o r

\* from <<q, r>> with r < d to <<q * Base + digit, r * Base - digit * d>>
DivStep(qr, d) == DivTake(qr[1], BShlLimb(qr[2]), d, DivDigit(BShlLimb(qr[2]), d))

\* k more limbs of long division
RECURSIVE BDivLimbs(_, _, _)
BDivLimbs(qr, d, k) ==
    IF k = 0 THEN <<BTrim(qr[1]), qr[2]>>
    ELSE Only({BDivLimbs(next, d, k - 1) : next \in {DivStep(qr, d)}})

BDivNormal(n, d, k) ==
    BDivLimbs(IF BCmp(n, d) >= 0 THEN <<<<1>>, BSub(n, d)>> ELSE <<<<>>, n>>, d, k)

\* <<floor(n * Base^k / d), whether the division is exact>> for n < 2d
BDivShift(n, d, k) ==
    BDivNormal(BShl(n, LimbBits * Len(d) - BBitLen(d)),
               BShl(d, LimbBits * Len(d) - BBitLen(d)), k)

\* ------------------------------------------------------------------------
\* binary64 values and arithmetic
\* ------------------------------------------------------------------------
FZero == [s |-> 1, m |-> <<>>, e |-> 0]

IsZero(x) == x.m = <<>>
IsNeg(x) == x.m # <<>> /\ x.s = -1
IsPos(x) == x.m # <<>> /\ x.s = 1

\* the float nearest to s * n * 2^e (sticky: a nonzero part below n was dropped)
Normal(s, q, e) ==
    IF BBitLen(q) > MantBits
    THEN [s |-> s, m |-> BShr(q, 1), e |-> e + 1]
    ELSE [s |-> s, m |-> q, e |-> e]

\* q the kept bits, c the dropped bits against one half: round to nearest, ties to even
RoundUp(s, q, e, c, sticky) ==
    Normal(s, IF c > 0 \/ (c = 0 /\ (sticky \/ q[1] % 2 = 1)) THEN BAdd(q, <<1>>) ELSE q, e)

RoundCut(s, n, e, sticky, sh, q) ==
    RoundUp(s, q, e + sh, BCmp(BSub(n, BShl(q, sh)), BShl(<<1>>, sh - 1)), sticky)

RoundLen(s, n, e, sticky, len) ==
    IF len <= MantBits
    THEN [s |-> s, m |-> BShl(n, MantBits - len), e |-> e - (MantBits - len)]
    ELSE RoundCut(s, n, e, sticky, len - MantBits, BShr(n, len - MantBits))

Round(s, n, e, sticky) == IF n = <<>> THEN FZero ELSE RoundLen(s, n, e, sticky, BBitLen(n))

FromInt(i) == Round(IF i < 0 THEN -1 ELSE 1, BFromInt(IF i < 0 THEN -i ELSE i), 0, FALSE)

FNeg(x) == IF IsZero(x) THEN x ELSE [x EXCEPT !.s = -x.s]

\* sx * nx * 2^e + sy * ny * 2^e, c the comparison of nx with ny
AddSigned(sx, nx, sy, ny, e, c) ==
    IF sx = sy THEN Round(sx, BAdd(nx, ny), e, FALSE)
    ELSE IF c = 0 THEN FZero
    ELSE Round(IF c > 0 THEN sx ELSE sy,
               IF c > 0 THEN BSub(nx, ny) ELSE BSub(ny, nx), e, FALSE)

AddAligned(sx, nx, sy, ny, e) == AddSigned(sx, nx, sy, ny, e, BCmp(nx, ny))

FAdd(x, y) ==
    IF IsZero(x) THEN y
    ELSE IF IsZero(y) THEN x
    ELSE IF x.e < y.e
    THEN AddAligned(x.s, x.m, y.s, BShl(y.m, y.e - x.e), x.e)
    ELSE AddAligned(x.s, BShl(x.m, x.e - y.e), y.s, y.m, y.e)

FSub(x, y) == FAdd(x, FNeg(y))

FMul(x, y) ==
    IF IsZero(x) \/ IsZero(y) THEN FZero
    ELSE Round(x.s * y.s, BMul(x.m, y.m), x.e + y.e, FALSE)

\* quotient limbs computed before rounding: at least MantBits + 2 bits
QuotLimbs == (MantBits + 2 + LimbBits - 1) \div LimbBits

RoundQuotient(s, qr, e) == Round(s, qr[1], e, qr[2] # <<>>)

\* x / y for y # 0 (Python raises ZeroDivisionError for y = 0)
FDiv(x, y) ==
    IF IsZero(x) THEN FZero
    ELSE RoundQuotient(x.s * y.s, BDivShift(x.m, y.m, QuotLimbs),
                       x.e - y.e - LimbBits * QuotLimbs)

\* n * 2^e cut to WideBits bits, the lowest kept bit set when anything nonzero
\* is dropped (round to odd: a later rounding to nearest is not disturbed)
WideBits == 8 * LimbBits

JamCut(n, e, sh, q) ==
    [m |-> IF BSub(n, BShl(q, sh)) # <<>> /\ q[1] % 2 = 0 THEN BAdd(q, <<1>>) ELSE q,
     e |-> e + sh]

JamLen(w, len) ==
    IF len <= WideBits THEN w
    ELSE JamCut(w.m, w.e, len - WideBits, BShr(w.m, len - WideBits))

Jam(w) == JamLen(w, BBitLen(w.m))

WMul(v, w) == Jam([m |-> BMul(v.m, w.m), e |-> v.e + w.e])

WSquare(w) == WMul(w, w)

\* w^n from sq = (w^(n \div 2))^2
WPowStep(w, n, sq) == IF n % 2 = 1 THEN WMul(sq, w) ELSE sq

RECURSIVE WPow(_, _)
WPow(w, n) ==
    IF n = 1 THEN w
    ELSE Only({WPowStep(w, n, WSquare(h)) : h \in {WPow(w, n \div 2)}})

\* x ** n for an integer n >= 1 and x > 0: the power carried to WideBits bits,
\* then rounded once
RoundWide(w) == Round(1, w.m, w.e, FALSE)

FPow(x, n) == RoundWide(WPow([m |-> x.m, e |-> x.e], n))

FLe(x, y) == ~IsPos(FSub(x, y))
FAbs(x) == IF IsNeg(x) THEN FNeg(x) ELSE x

\* ------------------------------------------------------------------------
\* Bounds and input domains
\* ------------------------------------------------------------------------
MaxTermYears == 2
MaxPrompts == 2

\* app.py sidebar: loan amount (min 10000, step 10000), rate (min 0.1, step 0.1)
AppLoanAmounts == {10000, 300000}
AppRateTenths == {1, 45}
\* mortgage.py: home value and deposit (min 0), rate (min 0.0)
HomeValues == {10000}
Deposits == {0, 10000, 20000}
MortgageRateTenths == {0, 13, 55}
TermYears == 1..MaxTermYears

Prompts == {"How much can I borrow?"}
Completions == {"It depends on your income."}
ApiErrors == {"Incorrect API key provided"}
ApiKeys == {"", "sk-test"}

\* the float a number input returns for a rate typed as tenths of a percent
RateValue(tenths) == FDiv(FromInt(tenths), FromInt(10))

VARIABLES
    script,                \* "app" (app.py) or "mortgage" (mortgage.py)
    pc,                    \* position of the current script run
    page,                  \* sidebar radio of mortgage.py
    openai_api_key,        \* sidebar text input of mortgage.py
    messages,              \* st.session_state.messages
    home_value, deposit,   \* number inputs of mortgage.py
    loan_amount, interest_rate, loan_term,
    monthly_interest_rate, \* module level
    number_of_payments,    \* module level (total_payments in app.py)
    monthly_payment,       \* module level
    frame,                 \* arguments and locals of create_amortization_schedule
    remaining_balance, schedule,
    payments_df,           \* mortgage.py: yearly minimum of Remaining Balance
    prev_call              \* the previous invocation of create_amortization_schedule

vars == <<script, pc, page, openai_api_key, messages, home_value, deposit,
          loan_amount, interest_rate, loan_term, monthly_interest_rate,
          number_of_payments, monthly_payment, frame, remaining_balance,
          schedule, payments_df, prev_call>>

chatVars == <<page, openai_api_key, messages>>
inputVars == <<home_value, deposit, loan_amount, interest_rate, loan_term>>
moduleVars == <<monthly_interest_rate, number_of_payments, monthly_payment>>
loopVars == <<frame, remaining_balance, schedule, payments_df>>

NoFrame ==
    [loan_amount |-> 0, interest_rate |-> FZero, loan_term |-> 0,
     monthly_rate |-> FZero, total_payments |-> 0]
NoCall == [args |-> <<>>, schedule |-> <<>>]

Idle == pc \in {"done", "failed"}

\* ------------------------------------------------------------------------
\* The payment formula and the per-period arithmetic
\* ------------------------------------------------------------------------
MonthlyRate(rate) == FDiv(FDiv(rate, FromInt(100)), FromInt(12))

\* loan * (r * (1 + r) ** n) / ((1 + r) ** n - 1); a zero denominator raises
\* ZeroDivisionError
Divide(num, den) ==
    IF IsZero(den)
    THEN [raised |-> TRUE, value |-> FZero]
    ELSE [raised |-> FALSE, value |-> FDiv(num, den)]

MonthlyPayment(loan, r, n) ==
    Divide(FMul(FromInt(loan), FMul(r, FPow(FAdd(FromInt(1), r), n))),
           FSub(FPow(FAdd(FromInt(1), r), n), FromInt(1)))

InterestPayment(balance, r) == FMul(balance, r)
\* a principal portion that forgets to take the interest out of the payment
WholePayment(payment, interest) == payment
PrincipalPayment(payment, interest) == FSub(payment, interest)
\* app.py only: "Ensure balance doesn't go negative due to rounding"
Clamp(balance) == IF IsNeg(balance) THEN FZero ELSE balance
\* math.ceil(i / 12) for a month number i >= 1
YearOf(i) == (i + 11) \div 12

\* ------------------------------------------------------------------------
\* app.py
\* ------------------------------------------------------------------------
ResetRun ==
    /\ monthly_interest_rate' = FZero
    /\ number_of_payments' = 0
    /\ monthly_payment' = FZero
    /\ frame' = NoFrame
    /\ remaining_balance' = FZero
    /\ schedule' = <<>>
    /\ payments_df' = <<>>

\* the user edits a sidebar widget: Streamlit runs the script again from the top
AppRerun ==
    /\ script = "app" /\ Idle
    /\ pc' = "inputs"
    /\ ResetRun
    /\ UNCHANGED <<script, chatVars, inputVars, prev_call>>

AppInputs ==
    /\ script = "app" /\ pc = "inputs"
    /\ \E l \in AppLoanAmounts, r \in AppRateTenths, t \in TermYears :
          /\ loan_amount' = l
          /\ interest_rate' = RateValue(r)
          /\ loan_term' = t
    /\ pc' = "payment"
    /\ UNCHANGED <<script, chatVars, home_value, deposit, moduleVars, loopVars,
                   prev_call>>

AppPayment ==
    /\ script = "app" /\ pc = "payment"
    /\ monthly_interest_rate' = MonthlyRate(interest_rate)
    /\ number_of_payments' = loan_term * 12
    /\ \E p \in {MonthlyPayment(loan_amount, monthly_interest_rate',
                                number_of_payments')} :
          /\ monthly_payment' = p.value
          /\ pc' = IF p.raised THEN "failed" ELSE "call"
    /\ UNCHANGED <<script, chatVars, inputVars, loopVars, prev_call>>

\* create_amortization_schedule(l, r, t) up to the start of its loop
Call(l, r, t) ==
    /\ frame' = [loan_amount |-> l, interest_rate |-> r, loan_term |-> t,
                 monthly_rate |-> MonthlyRate(r), total_payments |-> t * 12]
    /\ schedule' = <<>>
    /\ remaining_balance' = FromInt(l)
    /\ payments_df' = <<>>
    /\ pc' = "loop"
    /\ UNCHANGED <<script, chatVars, inputVars, moduleVars>>

\* amortization_df = create_amortization_schedule(loan_amount, interest_rate, loan_term)
AppCall ==
    /\ script = "app" /\ pc = "call"
    /\ Call(loan_amount, interest_rate, loan_term)
    /\ UNCHANGED prev_call

AppRow(no, balance, interest_payment, principal_payment) ==
    [Payment |-> no,
     Payment_Amount |-> monthly_payment,
     Principal |-> principal_payment,
     Interest |-> interest_payment,
     Remaining_Balance |-> Clamp(FSub(balance, principal_payment))]

AppSplit(no, balance, interest_payment) ==
    AppRow(no, balance, interest_payment,
           PrincipalPayment(monthly_payment, interest_payment))

\* one pass of the loop body, for payment number no and the balance before it
AppRecord(no, balance, r) == AppSplit(no, balance, InterestPayment(balance, r))

AppLoopStep ==
    /\ script = "app" /\ pc = "loop"
    /\ Len(schedule) < frame.total_payments
    /\ schedule' = Append(schedule, AppRecord(Len(schedule) + 1, remaining_balance,
                                              frame.monthly_rate))
    /\ remaining_balance' = schedule'[Len(schedule')].Remaining_Balance
    /\ UNCHANGED <<script, pc, chatVars, inputVars, moduleVars, frame, payments_df,
                   prev_call>>

AppReturn ==
    /\ script = "app" /\ pc = "loop"
    /\ Len(schedule) = frame.total_payments
    /\ pc' = "done"
    /\ UNCHANGED <<script, chatVars, inputVars, moduleVars, loopVars, prev_call>>

\* ------------------------------------------------------------------------
\* mortgage.py: the Mortgage Calculator page
\* ------------------------------------------------------------------------
MortgageRerun ==
    /\ script = "mortgage" /\ page = "Mortgage Calculator" /\ Idle
    /\ pc' = "inputs"
    /\ ResetRun
    /\ UNCHANGED <<script, chatVars, inputVars, prev_call>>

MortgageInputs ==
    /\ script = "mortgage" /\ pc = "inputs"
    /\ \E h \in HomeValues, d \in Deposits, r \in MortgageRateTenths, t \in TermYears :
          /\ home_value' = h
          /\ deposit' = d
          /\ loan_amount' = h - d
          /\ interest_rate' = RateValue(r)
          /\ loan_term' = t
    /\ pc' = "payment"
    /\ UNCHANGED <<script, chatVars, moduleVars, loopVars, prev_call>>

MortgagePayment ==
    /\ script = "mortgage" /\ pc = "payment"
    /\ monthly_interest_rate' = MonthlyRate(interest_rate)
    /\ number_of_payments' = loan_term * 12
    /\ \E p \in {MonthlyPayment(loan_amount, monthly_interest_rate',
                                number_of_payments')} :
          /\ monthly_payment' = p.value
          /\ remaining_balance' = IF p.raised THEN FZero ELSE FromInt(loan_amount)
          /\ pc' = IF p.raised THEN "failed" ELSE "loop"
    /\ UNCHANGED <<script, chatVars, inputVars, frame, schedule, payments_df,
                   prev_call>>

MortgageRow(i, balance, interest_payment, principal_payment) ==
    [Month |-> i,
     Payment |-> monthly_payment,
     Principal |-> principal_payment,
     Interest |-> interest_payment,
     Remaining_Balance |-> FSub(balance, principal_payment),
     Year |-> YearOf(i)]

MortgageSplit(i, balance, interest_payment) ==
    MortgageRow(i, balance, interest_payment,
                PrincipalPayment(monthly_payment, interest_payment))

\* one pass of the loop body, for month i and the balance before it
MortgageRecord(i, balance) ==
    MortgageSplit(i, balance, InterestPayment(balance, monthly_interest_rate))

MortgageLoopStep ==
    /\ script = "mortgage" /\ pc = "loop"
    /\ Len(schedule) < number_of_payments
    /\ schedule' = Append(schedule, MortgageRecord(Len(schedule) + 1, remaining_balance))
    /\ remaining_balance' = schedule'[Len(schedule')].Remaining_Balance
    /\ UNCHANGED <<script, pc, chatVars, inputVars, moduleVars, frame, payments_df,
                   prev_call>>

\* df[["Year", "Remaining Balance"]].groupby("Year").min(): one row per year,
\* years ascending
Least(values) == CHOOSE v \in values : \A w \in values : FLe(v, w)

YearMin(rows, y) ==
    Least({rows[k].Remaining_Balance : k \in {j \in 1..Len(rows) : rows[j].Year = y}})

NthYear(years, i) == CHOOSE y \in years : Cardinality({z \in years : z <= y}) = i

YearRow(rows, y) == [Year |-> y, Remaining_Balance |-> YearMin(rows, y)]

YearRows(rows, years) ==
    [i \in 1..Cardinality(years) |-> YearRow(rows, NthYear(years, i))]

GroupByYearMin(rows) == YearRows(rows, {rows[k].Year : k \in 1..Len(rows)})

MortgageFinish ==
    /\ script = "mortgage" /\ pc = "loop"
    /\ Len(schedule) = number_of_payments
    /\ payments_df' = GroupByYearMin(schedule)
    /\ pc' = "done"
    /\ UNCHANGED <<script, chatVars, inputVars, moduleVars, frame,
                   remaining_balance, schedule, prev_call>>

\* ------------------------------------------------------------------------
\* mortgage.py: navigation, API key, the ChatGPT page
\* ------------------------------------------------------------------------
AtRest == Idle \/ pc = "chat"

SelectPage ==
    /\ script = "mortgage" /\ AtRest
    /\ \E p \in {"Mortgage Calculator", "ChatGPT"} :
          /\ p # page
          /\ page' = p
          /\ pc' = IF p = "ChatGPT" THEN "chat" ELSE "inputs"
    /\ ResetRun
    /\ UNCHANGED <<script, openai_api_key, messages, inputVars, prev_call>>

EnterApiKey ==
    /\ script = "mortgage" /\ AtRest
    /\ \E k \in ApiKeys : k # openai_api_key /\ openai_api_key' = k
    /\ pc' = IF page = "ChatGPT" THEN "chat" ELSE "inputs"
    /\ ResetRun
    /\ UNCHANGED <<script, page, messages, inputVars, prev_call>>

Message(role, content) == [role |-> role, content |-> content]

\* "if prompt:" up to the completion request
ChatSubmit ==
    /\ script = "mortgage" /\ pc = "chat" /\ openai_api_key # ""
    /\ Len(messages) < 2 * MaxPrompts
    /\ \E prompt \in Prompts :
          messages' = Append(messages, Message("user", prompt))
    /\ pc' = "calling"
    /\ UNCHANGED <<script, page, openai_api_key, inputVars, moduleVars, loopVars,
                   prev_call>>

\* the stream ends: the full response joins the history
CompletionReply(full_response) == Append(messages, Message("assistant", full_response))
\* an except branch that shows the error but leaves the history alone
DroppedReply(e) == messages
\* except Exception as e: the error text joins the history
ErrorReply(e) == Append(messages, Message("assistant", "Error: " \o e))

ChatResponse ==
    /\ script = "mortgage" /\ pc = "calling"
    /\ \E full_response \in Completions : messages' = CompletionReply(full_response)
    /\ pc' = "chat"
    /\ UNCHANGED <<script, page, openai_api_key, inputVars, moduleVars, loopVars,
                   prev_call>>

ChatError ==
    /\ script = "mortgage" /\ pc = "calling"
    /\ \E e \in ApiErrors : messages' = ErrorReply(e)
    /\ pc' = "chat"
    /\ UNCHANGED <<script, page, openai_api_key, inputVars, moduleVars, loopVars,
                   prev_call>>

ClearConversation ==
    /\ script = "mortgage" /\ pc = "chat" /\ openai_api_key # ""
    /\ messages' = <<>>
    /\ UNCHANGED <<script, pc, page, openai_api_key, inputVars, moduleVars,
                   loopVars, prev_call>>

\* ------------------------------------------------------------------------
\* Specifications
\* ------------------------------------------------------------------------
Init ==
    /\ script \in {"app", "mortgage"}
    /\ pc = "inputs"
    /\ page = "Mortgage Calculator"
    /\ openai_api_key = ""
    /\ messages = <<>>
    /\ home_value = 0 /\ deposit = 0
    /\ loan_amount = 0 /\ interest_rate = FZero /\ loan_term = 0
    /\ monthly_interest_rate = FZero
    /\ number_of_payments = 0
    /\ monthly_payment = FZero
    /\ frame = NoFrame
    /\ remaining_balance = FZero
    /\ schedule = <<>>
    /\ payments_df = <<>>
    /\ prev_call = NoCall

Next ==
    \/ AppRerun \/ AppInputs \/ AppPayment \/ AppCall \/ AppLoopStep \/ AppReturn
    \/ MortgageRerun \/ MortgageInputs \/ MortgagePayment \/ MortgageLoopStep
    \/ MortgageFinish
    \/ SelectPage \/ EnterApiKey
    \/ ChatSubmit \/ ChatResponse \/ ChatError \/ ClearConversation

Spec == Init /\ [][Next]_vars

\* ------------------------------------------------------------------------
\* create_amortization_schedule as a function of its arguments: app.py runs as
\* above, but the call passes any arguments of CallArgs, and the invocation
\* that returned last is remembered in prev_call
\* ------------------------------------------------------------------------
CallArgs == {<<10000, 45, 1>>, <<300000, 1, 1>>}

Args == <<frame.loan_amount, frame.interest_rate, frame.loan_term>>

CallAny ==
    /\ script = "app" /\ pc = "call"
    /\ \E a \in CallArgs : Call(a[1], RateValue(a[2]), a[3])
    /\ UNCHANGED prev_call

CallRerun ==
    /\ script = "app" /\ pc = "done"
    /\ prev_call' = [args |-> Args, schedule |-> schedule]
    /\ pc' = "inputs"
    /\ ResetRun
    /\ UNCHANGED <<script, chatVars, inputVars>>

InitCall == Init /\ script = "app"

NextCall ==
    \/ CallRerun \/ AppInputs \/ AppPayment \/ CallAny \/ AppLoopStep \/ AppReturn

SpecCall == InitCall /\ [][NextCall]_vars

\* ------------------------------------------------------------------------
\* Properties
\* ------------------------------------------------------------------------
\* principal > 0, annualRatePercent >= 0, termYears >= 1
ValidInput == loan_amount > 0 /\ ~IsNeg(interest_rate) /\ loan_term >= 1

\* the current run has read its inputs
InputsRead == pc \in {"payment", "call", "loop", "done", "failed"}

Balance(k) == schedule[k].Remaining_Balance

\* C1: for every valid input the last record of the returned schedule has a
\* remaining balance equal to 0.
C1_FinalBalanceZero ==
    (pc = "done" /\ ValidInput) => IsZero(Balance(Len(schedule)))

\* C2: no record of a schedule reports a negative remaining balance (stated
\* here for valid inputs only, the weakest reading of the claim).
C2_NoNegativeBalance ==
    (InputsRead /\ ValidInput) => \A k \in 1..Len(schedule) : ~IsNeg(Balance(k))

\* the number of the k-th record: "Payment" in app.py, "Month" in mortgage.py
PeriodIndex(k) == IF script = "app" THEN schedule[k].Payment ELSE schedule[k].Month

\* C3: for every valid input the run ends with a schedule of exactly
\* termYears * 12 records, the k-th of them numbered k.
C3_LengthAndIndices ==
    (Idle /\ ValidInput) =>
        /\ Len(schedule) = loan_term * 12
        /\ \A k \in 1..Len(schedule) : PeriodIndex(k) = k

\* the principal portions of records lo..hi added up pairwise
RECURSIVE PrincipalSum(_, _)
PrincipalSum(lo, hi) ==
    IF lo = hi THEN schedule[lo].Principal
    ELSE FAdd(PrincipalSum(lo, (lo + hi) \div 2), PrincipalSum((lo + hi) \div 2 + 1, hi))

\* 1e-6
Tolerance == FDiv(FromInt(1), FromInt(1000000))

WithinTolerance(sum, principal) ==
    FLe(FAbs(FSub(sum, principal)), FMul(Tolerance, principal))

C5_NonIncreasing ==
    InputsRead =>
        \A k \in 1..Len(schedule) :
            FLe(Balance(k), IF k = 1 THEN FromInt(loan_amount) ELSE Balance(k - 1))

\* C6: a rate of 0 is not an error: the run ends with the payment
\* P / (T * 12) and a schedule whose interest portion is 0 in every period.
C6_ZeroRate ==
    (Idle /\ ValidInput /\ IsZero(interest_rate)) =>
        /\ pc = "done"
        /\ monthly_payment = FDiv(FromInt(loan_amount), FromInt(loan_term * 12))
        /\ \A k \in 1..Len(schedule) : IsZero(schedule[k].Interest)

\* C7: when the principal is <= 0 (home value minus deposit included), the
\* term <= 0 or the rate < 0, the run fails and no payment record is produced.
C7_InvalidInputRejected ==
    (InputsRead /\ ~ValidInput) => (schedule = <<>> /\ pc # "done")

\* C8: two invocations of the schedule generator with the same three
\* arguments return identical schedules: the one whose loop has just finished
\* equals the one remembered from the previous invocation.
C8_SameArgsSameSchedule ==
    (pc = "done" /\ prev_call.args = Args) => prev_call.schedule = schedule

\* C9: the yearly balances have one entry per year 1..termYears, in order,
\* and the minimum of each year is the remaining balance of the last record
\* of that year (period 12 * year).
C9_YearlyBalances ==
    (script = "mortgage" /\ pc = "done") =>
        /\ Len(payments_df) = loan_term
        /\ \A y \in 1..Len(payments_df) :
              /\ payments_df[y].Year = y
              /\ payments_df[y].Remaining_Balance = Balance(12 * y)

\* user, assistant, user, assistant, ... from the first message on
Alternates(transcript) ==
    \A k \in 1..Len(transcript) :
        transcript[k].role = IF k % 2 = 1 THEN "user" ELSE "assistant"

\* C10: whenever no completion request is pending, the transcript is empty
\* or alternates user, assistant, ... and ends with an assistant message;
\* while a request is pending it is such a transcript plus the user message
\* being handled.
C10_TranscriptAlternates ==
    /\ Alternates(messages)
    /\ Len(messages) % 2 = (IF pc = "calling" THEN 1 ELSE 0)

C10_Witness ==
    /\ pc = "chat" /\ Len(messages) = 4
    /\ messages[2].content \in {"Error: " \o e : e \in ApiErrors}
    /\ messages[4].content \in Completions
====
